---------------------------- MODULE Spec2Model ----------------------------
(***************************************************************************)
(* Model of the optimistic delete-with-undo protocol of the chat manager   *)
(* page served by src/src/fastapi_manager.py (the script block, lines      *)
(* 1171-1960) together with the /api/chats, /api/analyze and /api/delete   *)
(* endpoints it talks to.                                                  *)
(*                                                                         *)
(* The page is single threaded: every handler runs to its next await.  An  *)
(* action of the model is one such run.  setTimeout and setInterval give   *)
(* no ordering guarantee between different timers, so an armed timer may   *)
(* fire at any moment; there is no clock in the model.                     *)
(***************************************************************************)
EXTENDS Integers, Sequences, FiniteSets, TLC

(***************************************************************************)
(* Bounds of the model.                                                    *)
(***************************************************************************)
\* number of conversations of the account
NumChats == 2
\* number of setTimeout calls (commit timers and retry timers) in one run
MaxTimers == 2

\* number of dialogs of the account in the runs of the server
NumDialogs == 3
\* number of phone numbers a user connects with
NumPhones == 2
\* number of TelegramClient objects made by one server process
MaxClients == 2

\* length of the entity lists given to the classifiers
MaxList == 2
\* number of persons of the long listing scanned one dialog at a time
MaxScan == 52

\* Date.now() of deleteSelected: bulk keys lie far above every chat id
BulkBase == 1000

Ids == 1..NumChats
ServerIds == 1..NumDialogs
Phones == 1..NumPhones
NoPhone == 0

(***************************************************************************)
(* The account's conversations (the Conversation Source).  Entity 1 is a   *)
(* deleted person, entity 2 a basic group, entity 3 a person without       *)
(* messages, every further entity a plain group.                           *)
(***************************************************************************)
Entity(id) ==
    CASE id = 1 -> [kind |-> "user", deleted |-> TRUE, bot |-> FALSE,
                    scam |-> FALSE, fake |-> FALSE, messages |-> 0]
      [] id = 3 -> [kind |-> "user", deleted |-> FALSE, bot |-> FALSE,
                    scam |-> FALSE, fake |-> FALSE, messages |-> 0]
      [] OTHER  -> [kind |-> "group", deleted |-> FALSE, bot |-> FALSE,
                    scam |-> FALSE, fake |-> FALSE, messages |-> 1]

\* the keys of the analysis object, in the order the server builds it
CatOrder == <<"deleted", "no_messages", "bots", "scam", "fake", "active">>
Cats == {CatOrder[i] : i \in DOMAIN CatOrder}

NoCat == "none"
\* window.analysisData before the first analysis: an object without keys
Undefined == [c \in {} |-> <<>>]
IsUndefined(data) == DOMAIN data = {}
NoToast == 0

VARIABLES
    source,              \* ids of the dialogs that exist at the server
    currentChats,        \* the main list (sequence of chat ids)
    analysisData,        \* window.analysisData: Undefined or [Cats -> Seq(Ids)]
    selectedChats,       \* the Set selectedChats, in insertion order
    pendingDeletes,      \* the Map pendingDeletes: key -> record
    timers,              \* every setTimeout made so far, with its callback's position
    toast,               \* the key the visible undo toast targets, or NoToast
    progressModal,       \* the bulk progress dialog is shown
    bulkDeleteCancelled, \* the flag the bulk loop reads
    requests,            \* history: number of POST /api/delete/id issued, per id
    alerts,              \* history: ids whose delete failure was shown (alert)
    cancelPressed,       \* history: Cancel was pressed while the progress dialog is shown
    client,              \* the global client: 0 (None) or the index of a client in conns
    conns,               \* every TelegramClient made by this process, in order
    is_connected,        \* the global flag reported by /health
    config,              \* the global config
    configFile,          \* the stored configuration file
    sessions,            \* phones whose session file is authorized
    all_chats_cache,     \* the global cache holds a non-empty list
    scan,                \* the analyze request being served, with its position
    del,                 \* the delete request being served, with its position
    answer,              \* history: the last answer the server gave
    input,               \* the entity list given to a classifier
    out,                 \* what the classifier applied to input returned
    run,                 \* a scan of a long listing: its counters and its last placement
    web_app_cache        \* all_chats_cache of web_app.py

pageVars == <<currentChats, analysisData, selectedChats, pendingDeletes,
              timers, toast, progressModal, bulkDeleteCancelled, requests, alerts,
              cancelPressed>>

srvVars == <<client, conns, is_connected, config, configFile, sessions,
             all_chats_cache, scan, del, answer>>

cliVars == <<input, out, run, web_app_cache>>

vars == <<source, pageVars, srvVars, cliVars>>

(***************************************************************************)
(* List helpers.                                                           *)
(***************************************************************************)
Contains(list, id) == \E i \in DOMAIN list : list[i] = id

\* list.filter(c => c.id !== id)
RemoveId(list, id) == SelectSeq(list, LAMBDA c : c # id)

RECURSIVE SortedSeq(_)
SortedSeq(S) ==
    IF S = {} THEN <<>>
    ELSE LET m == CHOOSE x \in S : \A y \in S : x <= y
         IN <<m>> \o SortedSeq(S \ {m})


(***************************************************************************)
(* The server: GET /api/chats and GET /api/analyze over the dialogs that   *)
(* exist, listed in a fixed order.                                         *)
(***************************************************************************)
\* client.iter_dialogs(): the existing dialogs
iter_dialogs(src) == SortedSeq(src)

\* get_chats: the "chats" array of the answer
get_chats(src) == iter_dialogs(src)

\* the probe budget of analyze
ProbeBudget == 50

\* the bucket analyze puts one person in; checked is users_checked after its increment
Bucket(e, checked) ==
    IF e.deleted THEN "deleted"
    ELSE IF e.bot THEN "bots"
    ELSE IF e.scam THEN "scam"
    ELSE IF e.fake THEN "fake"
    ELSE IF checked <= ProbeBudget
         THEN (IF e.messages = 0 THEN "no_messages" ELSE "active")
         ELSE "active"

EmptyAnalysis == [c \in Cats |-> <<>>]

RECURSIVE AnalyzeFrom(_, _, _, _)
AnalyzeFrom(dialogs, k, checked, acc) ==
    IF k > Len(dialogs) THEN acc
    ELSE LET e == Entity(dialogs[k])
         IN IF e.kind = "user"
            THEN LET b == Bucket(e, checked + 1)
                 IN AnalyzeFrom(dialogs, k + 1, checked + 1,
                                [acc EXCEPT ![b] = Append(@, dialogs[k])])
            ELSE AnalyzeFrom(dialogs, k + 1, checked, acc)

\* analyze: the "users" object of the answer
analyze(src) == AnalyzeFrom(iter_dialogs(src), 1, 0, EmptyAnalysis)

(***************************************************************************)
(* The page: lookup, restore, undo toast.                                  *)
(***************************************************************************)
NotFound == [found |-> FALSE, chat |-> 0, source |-> "none", category |-> NoCat]

RECURSIVE FindInAnalysis(_, _, _)
FindInAnalysis(data, id, k) ==
    IF k > Len(CatOrder) THEN NotFound
    ELSE IF Contains(data[CatOrder[k]], id)
         THEN [found |-> TRUE, chat |-> id, source |-> "analysis",
               category |-> CatOrder[k]]
         ELSE FindInAnalysis(data, id, k + 1)

\* findChatById over given lists: the main list first, then the categories in order
FindIn(chats, data, id) ==
    IF Contains(chats, id)
    THEN [found |-> TRUE, chat |-> id, source |-> "main", category |-> NoCat]
    ELSE IF IsUndefined(data) THEN NotFound
    ELSE FindInAnalysis(data, id, 1)

findChatById(id) == FindIn(currentChats, analysisData, id)

\* the snapshot kept of a found chat
ItemOf(found) == [chat |-> found.chat, source |-> found.source,
                  category |-> found.category]

\* the optimistic removal of one item from the list that holds it
RemoveFromChats(chats, item) ==
    IF item.source = "main" THEN RemoveId(chats, item.chat) ELSE chats

RemoveFromData(data, item) ==
    IF item.source = "analysis"
    THEN [data EXCEPT ![item.category] = RemoveId(@, item.chat)]
    ELSE data

\* restoreChat(chat, source, category): the lists after the push
RestoreToChats(chats, item) ==
    IF item.source = "main" THEN Append(chats, item.chat) ELSE chats

RestoreToData(data, item) ==
    IF item.source = "analysis"
    THEN [data EXCEPT ![item.category] = Append(@, item.chat)]
    ELSE data

\* a bulk restore that pushes only the first main-list item back
RestoreFirstChat(chats, items, k) ==
    IF k > Len(items) THEN chats ELSE RestoreToChats(chats, items[k])

\* undoDelete's loop over pending.items, for the main list and for the categories
RECURSIVE RestoreAllChats(_, _, _)
RestoreAllChats(chats, items, k) ==
    IF k > Len(items) THEN chats
    ELSE RestoreAllChats(RestoreToChats(chats, items[k]), items, k + 1)

RECURSIVE RestoreAllData(_, _, _)
RestoreAllData(data, items, k) ==
    IF k > Len(items) THEN data
    ELSE RestoreAllData(RestoreToData(data, items[k]), items, k + 1)

\* clearTimeout(timeoutId): an armed timer is cancelled, a fired one is not affected
clearTimeout(tm, t) ==
    IF tm[t].pc = "armed" THEN [tm EXCEPT ![t].pc = "cancelled"] ELSE tm

\* a delete that empties the map
MapDeleteAll(map, key) == [k \in {} |-> map[k]]

\* Map.delete(key)
MapDelete(map, key) == [k \in (DOMAIN map) \ {key} |-> map[k]]

\* Map.set(key, rec)
MapSet(map, key, rec) ==
    [k \in (DOMAIN map) \cup {key} |-> IF k = key THEN rec ELSE map[k]]


(***************************************************************************)
(* Timers.  timers[t] is the t-th setTimeout of the run (t is its          *)
(* timeoutId) with the state of its callback:                              *)
(*   kind "single": the commit timer of deleteChat(key); items holds the   *)
(*                  snapshot of its closure (dropped when it is done)      *)
(*   kind "retry":  the timer that calls deleteChat(key) again after a     *)
(*                  rate limit                                             *)
(*   kind "bulk":   the commit timer of deleteSelected; ids is toDeleteIds *)
(*                  and items is storedItems                               *)
(*   pc: "armed" | "cancelled" | "fetch" (a delete request is in flight)   *)
(*       | "stats" (single: the stats request after a success is in        *)
(*       flight) | "wait" (bulk: backing off) | "fetch2" (bulk: the retry  *)
(*       request is in flight) | "done"                                    *)
(***************************************************************************)
SingleTimer(id, item) ==
    [kind |-> "single", key |-> id, items |-> <<item>>, ids |-> <<id>>,
     pc |-> "armed", i |-> 0, deleted |-> 0, failed |-> 0]

RetryTimer(id) ==
    [kind |-> "retry", key |-> id, items |-> <<>>, ids |-> <<id>>,
     pc |-> "armed", i |-> 0, deleted |-> 0, failed |-> 0]

BulkTimer(bulkId, ids, storedItems) ==
    [kind |-> "bulk", key |-> bulkId, items |-> storedItems, ids |-> ids,
     pc |-> "armed", i |-> 0, deleted |-> 0, failed |-> 0]

\* the outcomes of POST /api/delete/id as the page sees them: 200, 429 with a
\* retry_after, 400, and a fetch that throws
\* "gone" is the 400 the server gives when the source raises because the dialog
\* no longer exists (get_entity or delete_dialog fails): for the page it is an "err"
Outcomes == {"ok", "rate", "err", "net", "gone"}

\* what the source can answer for id: it may accept the delete of a dialog that is
\* gone or raise for it, but it only reports a dialog as gone when it is
Possible(src, id, outcome) == outcome = "gone" => id \notin src

\* delete_chat on the server: the dialog is gone after a success
delete_chat(src, id, outcome) == IF outcome = "ok" THEN src \ {id} ELSE src

(***************************************************************************)
(* deleteChat(id, title), lines 1654-1706, on the timers tm (the caller    *)
(* may have changed them in the same run).                                 *)
(***************************************************************************)
deleteChat(id, tm) ==
    LET found == findChatById(id)
        item  == ItemOf(found)
        t     == Len(tm) + 1
    IN IF ~found.found
       THEN /\ timers' = tm
            /\ UNCHANGED <<currentChats, analysisData, selectedChats,
                           pendingDeletes, toast>>
       ELSE /\ currentChats' = RemoveFromChats(currentChats, item)
            /\ analysisData' = RemoveFromData(analysisData, item)
            /\ selectedChats' = RemoveId(selectedChats, id)
            /\ toast' = id
            /\ timers' = Append(tm, SingleTimer(id, item))
            /\ pendingDeletes' =
                 MapSet(pendingDeletes, id,
                        [timeoutId |-> t, isBulk |-> FALSE, items |-> <<item>>])

\* the user presses Delete on a listed chat
DeleteClick(id) ==
    /\ findChatById(id).found
    /\ Len(timers) < MaxTimers
    /\ deleteChat(id, timers)
    /\ UNCHANGED <<source, progressModal, bulkDeleteCancelled, requests, alerts,
                   cancelPressed>>

(***************************************************************************)
(* undoDelete(id), lines 1750-1776.                                        *)
(***************************************************************************)
undoDelete(id) ==
    IF id \notin DOMAIN pendingDeletes
    THEN UNCHANGED <<currentChats, analysisData, pendingDeletes, timers, toast>>
    ELSE LET pending == pendingDeletes[id]
         IN /\ timers' = clearTimeout(timers, pending.timeoutId)
            /\ pendingDeletes' = MapDelete(pendingDeletes, id)
            /\ currentChats' = RestoreAllChats(currentChats, pending.items, 1)
            /\ analysisData' = RestoreAllData(analysisData, pending.items, 1)
            /\ toast' = NoToast

\* the user presses Undo on the visible toast, which targets the last key shown
UndoClick ==
    /\ toast # NoToast
    /\ undoDelete(toast)
    /\ UNCHANGED <<source, selectedChats, progressModal, bulkDeleteCancelled,
                   requests, alerts, cancelPressed>>

\* the countdown of showUndoToast reaches 0 and hides the toast
ToastExpire ==
    /\ toast # NoToast
    /\ toast' = NoToast
    /\ UNCHANGED <<source, currentChats, analysisData, selectedChats,
                   pendingDeletes, timers, progressModal, bulkDeleteCancelled,
                   requests, alerts, cancelPressed>>

(***************************************************************************)
(* The commit timer of a single delete, lines 1676-1703.                   *)
(***************************************************************************)
\* the timer fires: POST /api/delete/id is issued
SingleFire(t) ==
    /\ timers[t].kind = "single"
    /\ timers[t].pc = "armed"
    /\ timers' = [timers EXCEPT ![t].pc = "fetch"]
    /\ requests' = [requests EXCEPT ![timers[t].key] = @ + 1]
    /\ UNCHANGED <<source, currentChats, analysisData, selectedChats,
                   pendingDeletes, toast, progressModal, bulkDeleteCancelled,
                   alerts, cancelPressed>>

\* the answer arrives
SingleRespond(t, outcome) ==
    LET id == timers[t].key
        item == timers[t].items[1]
    IN /\ timers[t].kind = "single"
       /\ timers[t].pc = "fetch"
       /\ Possible(source, id, outcome)
       /\ source' = delete_chat(source, id, outcome)
       /\ CASE outcome = "ok" ->
                 \* the stats request is awaited before the finally block runs
                 /\ timers' = [timers EXCEPT ![t].pc = "stats"]
                 /\ UNCHANGED <<currentChats, analysisData, pendingDeletes, alerts>>
            [] outcome = "rate" ->
                 \* setTimeout(() => deleteChat(id, title), ...); return; finally
                 /\ Len(timers) < MaxTimers
                 /\ timers' = Append([timers EXCEPT ![t].pc = "done",
                                                    ![t].items = <<>>],
                                     RetryTimer(id))
                 /\ pendingDeletes' = MapDelete(pendingDeletes, id)
                 /\ UNCHANGED <<currentChats, analysisData, alerts>>
            [] OTHER ->
                 \* restoreChat, alert, finally
                 /\ timers' = [timers EXCEPT ![t].pc = "done", ![t].items = <<>>]
                 /\ currentChats' = RestoreToChats(currentChats, item)
                 /\ analysisData' = RestoreToData(analysisData, item)
                 /\ alerts' = alerts \cup {id}
                 /\ pendingDeletes' = MapDelete(pendingDeletes, id)
       /\ UNCHANGED <<selectedChats, toast, progressModal, bulkDeleteCancelled,
                      requests, cancelPressed>>

\* the stats request after a success ends (either way): the finally block runs
SingleStatsDone(t) ==
    /\ timers[t].kind = "single"
    /\ timers[t].pc = "stats"
    /\ timers' = [timers EXCEPT ![t].pc = "done", ![t].items = <<>>]
    /\ pendingDeletes' = MapDelete(pendingDeletes, timers[t].key)
    /\ UNCHANGED <<source, currentChats, analysisData, selectedChats, toast,
                   progressModal, bulkDeleteCancelled, requests, alerts,
                   cancelPressed>>

\* the retry timer fires: deleteChat(id, title) is called again
RetryFire(t) ==
    /\ timers[t].kind = "retry"
    /\ timers[t].pc = "armed"
    /\ findChatById(timers[t].key).found => Len(timers) < MaxTimers
    /\ deleteChat(timers[t].key, [timers EXCEPT ![t].pc = "done"])
    /\ UNCHANGED <<source, progressModal, bulkDeleteCancelled, requests, alerts,
                   cancelPressed>>


(***************************************************************************)
(* Selection and deleteSelected, lines 1196-1204 and 1267-1352.            *)
(***************************************************************************)
\* the checkbox of a listed chat
toggleChatSelection(id) ==
    /\ findChatById(id).found
    /\ selectedChats' = IF Contains(selectedChats, id)
                        THEN RemoveId(selectedChats, id)
                        ELSE Append(selectedChats, id)
    /\ UNCHANGED <<source, currentChats, analysisData, pendingDeletes, timers,
                   toast, progressModal, bulkDeleteCancelled, requests, alerts,
                   cancelPressed>>

\* storedItems: the snapshots of the selected ids that findChatById finds
RECURSIVE StoredItems(_, _)
StoredItems(ids, k) ==
    IF k > Len(ids) THEN <<>>
    ELSE LET found == findChatById(ids[k])
         IN (IF found.found THEN <<ItemOf(found)>> ELSE <<>>)
            \o StoredItems(ids, k + 1)

RECURSIVE RemoveAllChats(_, _, _)
RemoveAllChats(chats, items, k) ==
    IF k > Len(items) THEN chats
    ELSE RemoveAllChats(RemoveFromChats(chats, items[k]), items, k + 1)

RECURSIVE RemoveAllData(_, _, _)
RemoveAllData(data, items, k) ==
    IF k > Len(items) THEN data
    ELSE RemoveAllData(RemoveFromData(data, items[k]), items, k + 1)

\* "Delete selected", confirmed by the user
deleteSelected ==
    LET toDeleteIds == selectedChats
        storedItems == StoredItems(toDeleteIds, 1)
        t           == Len(timers) + 1
        bulkId      == BulkBase + t
    IN /\ Len(selectedChats) > 0
       /\ Len(timers) < MaxTimers
       /\ currentChats' = RemoveAllChats(currentChats, storedItems, 1)
       /\ analysisData' = RemoveAllData(analysisData, storedItems, 1)
       /\ selectedChats' = <<>>
       /\ toast' = bulkId
       /\ timers' = Append(timers, BulkTimer(bulkId, toDeleteIds, storedItems))
       /\ pendingDeletes' =
            MapSet(pendingDeletes, bulkId,
                   [timeoutId |-> t, isBulk |-> TRUE, items |-> storedItems])
       /\ UNCHANGED <<source, progressModal, bulkDeleteCancelled, requests,
                      alerts, cancelPressed>>

(***************************************************************************)
(* The commit timer of a bulk delete, lines 1302-1349.  The final stats    *)
(* request after the loop changes no list and is left out.                 *)
(***************************************************************************)
\* a loop that gives up the batch after the first failed item
BulkLoopAbortOnFailure(tm, t, next) ==
    IF next > Len(tm[t].ids) \/ bulkDeleteCancelled \/ tm[t].failed > 0
    THEN /\ timers' = [tm EXCEPT ![t].pc = "done"]
         /\ progressModal' = FALSE
         /\ cancelPressed' = FALSE
         /\ UNCHANGED requests
    ELSE /\ timers' = [tm EXCEPT ![t].pc = "fetch", ![t].i = next]
         /\ progressModal' = TRUE
         /\ cancelPressed' = cancelPressed
         /\ requests' = [requests EXCEPT ![tm[t].ids[next]] = @ + 1]

\* the head of the for loop for item number next: break, end, or the next request
BulkLoop(tm, t, next) ==
    IF next > Len(tm[t].ids) \/ bulkDeleteCancelled
    THEN /\ timers' = [tm EXCEPT ![t].pc = "done"]
         /\ progressModal' = FALSE
         /\ cancelPressed' = FALSE
         /\ UNCHANGED requests
    ELSE /\ timers' = [tm EXCEPT ![t].pc = "fetch", ![t].i = next]
         /\ progressModal' = TRUE
         /\ cancelPressed' = cancelPressed
         /\ requests' = [requests EXCEPT ![tm[t].ids[next]] = @ + 1]

\* the timer fires: the flag is reset, so the loop issues the request of the first
\* item (toDeleteIds is not empty)
BulkFire(t) ==
    /\ timers[t].kind = "bulk"
    /\ timers[t].pc = "armed"
    /\ pendingDeletes' = MapDelete(pendingDeletes, timers[t].key)
    /\ bulkDeleteCancelled' = FALSE
    /\ timers' = [timers EXCEPT ![t].pc = "fetch", ![t].i = 1]
    /\ progressModal' = TRUE
    /\ requests' = [requests EXCEPT ![timers[t].ids[1]] = @ + 1]
    /\ UNCHANGED <<source, currentChats, analysisData, selectedChats, toast,
                   alerts, cancelPressed>>

\* the answer to the first request of the current item arrives
BulkRespond(t, outcome) ==
    LET r  == timers[t]
        id == r.ids[r.i]
    IN /\ r.kind = "bulk"
       /\ r.pc = "fetch"
       /\ Possible(source, id, outcome)
       /\ source' = delete_chat(source, id, outcome)
       /\ CASE outcome = "ok" ->
                 BulkLoop([timers EXCEPT ![t].deleted = @ + 1], t, r.i + 1)
            [] outcome = "rate" ->
                 /\ timers' = [timers EXCEPT ![t].pc = "wait"]
                 /\ UNCHANGED <<progressModal, requests, cancelPressed>>
            [] OTHER ->
                 BulkLoop([timers EXCEPT ![t].failed = @ + 1], t, r.i + 1)
       /\ UNCHANGED <<currentChats, analysisData, selectedChats, pendingDeletes,
                      toast, bulkDeleteCancelled, alerts>>

\* the signaled delay is over: the second request of the current item is issued
BulkRetry(t) ==
    /\ timers[t].kind = "bulk"
    /\ timers[t].pc = "wait"
    /\ timers' = [timers EXCEPT ![t].pc = "fetch2"]
    /\ requests' = [requests EXCEPT ![timers[t].ids[timers[t].i]] = @ + 1]
    /\ UNCHANGED <<source, currentChats, analysisData, selectedChats,
                   pendingDeletes, toast, progressModal, bulkDeleteCancelled,
                   alerts, cancelPressed>>

\* a second request that is retried again for as long as the source signals a delay
BulkRespond2RetryAgain(t, outcome) ==
    LET r  == timers[t]
        id == r.ids[r.i]
    IN /\ r.kind = "bulk"
       /\ r.pc = "fetch2"
       /\ Possible(source, id, outcome)
       /\ source' = delete_chat(source, id, outcome)
       /\ CASE outcome = "rate" ->
                 /\ timers' = [timers EXCEPT ![t].pc = "wait"]
                 /\ UNCHANGED <<progressModal, requests, cancelPressed>>
            [] outcome = "net" ->
                 BulkLoop([timers EXCEPT ![t].failed = @ + 1], t, r.i + 1)
            [] OTHER -> BulkLoop(timers, t, r.i + 1)
       /\ UNCHANGED <<currentChats, analysisData, selectedChats, pendingDeletes,
                      toast, bulkDeleteCancelled, alerts>>

\* the answer to the second request arrives: it is not looked at; a fetch that
\* throws is caught and counted as failed
BulkRespond2(t, outcome) ==
    LET r  == timers[t]
        id == r.ids[r.i]
    IN /\ r.kind = "bulk"
       /\ r.pc = "fetch2"
       /\ Possible(source, id, outcome)
       /\ source' = delete_chat(source, id, outcome)
       /\ IF outcome = "net"
          THEN BulkLoop([timers EXCEPT ![t].failed = @ + 1], t, r.i + 1)
          ELSE BulkLoop(timers, t, r.i + 1)
       /\ UNCHANGED <<currentChats, analysisData, selectedChats, pendingDeletes,
                      toast, bulkDeleteCancelled, alerts>>

\* the Cancel button of the progress dialog calls cancelBulkDelete(), which the
\* page does not define: the click raises a ReferenceError and sets nothing
CancelClick ==
    /\ progressModal
    /\ cancelPressed' = TRUE
    /\ UNCHANGED <<source, currentChats, analysisData, selectedChats,
                   pendingDeletes, timers, toast, progressModal,
                   bulkDeleteCancelled, requests, alerts>>

(***************************************************************************)
(* Refresh and spam analysis, lines 1523-1542 and 1778-1824.  The request  *)
(* and its answer are one step.                                            *)
(***************************************************************************)
loadChats ==
    /\ currentChats' = get_chats(source)
    /\ UNCHANGED <<source, analysisData, selectedChats, pendingDeletes, timers,
                   toast, progressModal, bulkDeleteCancelled, requests, alerts,
                   cancelPressed>>

analyzeSpam ==
    /\ analysisData' = analyze(source)
    /\ UNCHANGED <<source, currentChats, selectedChats, pendingDeletes, timers,
                   toast, progressModal, bulkDeleteCancelled, requests, alerts,
                   cancelPressed>>

(***************************************************************************)
(* The specification.  The page starts connected with the chats loaded     *)
(* (showMain calls loadChats) and no analysis yet.                         *)
(***************************************************************************)
(***************************************************************************)
(* The server process, lines 2001-2605.  The handlers are coroutines of    *)
(* one event loop: a handler runs alone up to its next await, and other    *)
(* handlers run while it waits.  The session handlers (connect, verify,    *)
(* logout, reset) are taken as one step each; analyze and delete_chat are  *)
(* split at the awaits of their calls to the source.                       *)
(***************************************************************************)
\* a TelegramClient: the phone of its session file, whether its connection is open,
\* whether it is authorized, and whether _phone was set for the verification
Conn(phone, open, auth, code) ==
    [phone |-> phone, open |-> open, auth |-> auth, code |-> code]

NoConfig == [present |-> FALSE, phone |-> NoPhone]

Idle == [pc |-> "idle", queue |-> <<>>, id |-> 0]

Answer(op, code, called) == [op |-> op, code |-> code, called |-> called]

NoAnswer == Answer("none", "none", FALSE)

\* save_config(api_id, api_hash, phone): the stored phone survives a call without one
save_config(file, phone) ==
    [present |-> TRUE,
     phone |-> IF phone # NoPhone THEN phone
               ELSE IF file.present THEN file.phone ELSE NoPhone]

\* "if not config: load_config()"
load_config == IF config.present THEN config ELSE configFile

\* the guard of the data endpoints: "not client or not client.is_connected()"
NotConnected == client = 0 \/ ~conns[client].open

\* the source serves the calls of an open, authorized client only
Usable == client # 0 /\ conns[client].open /\ conns[client].auth

\* POST /api/config
save_app_config ==
    /\ config' = save_config(configFile, NoPhone)
    /\ configFile' = save_config(configFile, NoPhone)
    /\ answer' = Answer("config", "OK", FALSE)
    /\ UNCHANGED <<source, pageVars, client, conns, is_connected, sessions,
                   all_chats_cache, scan, del>>

\* POST /api/connect; outcome "fail" is a client.connect() that raises
connect(phone, outcome) ==
    LET cfg == load_config
        n   == Len(conns) + 1
    IN /\ config' = cfg
       /\ IF ~cfg.present
          THEN /\ answer' = Answer("connect", "NOT_CONFIGURED", FALSE)
               /\ UNCHANGED <<client, conns, is_connected, configFile>>
          ELSE /\ Len(conns) < MaxClients
               /\ client' = n
               /\ CASE outcome = "fail" ->
                         /\ conns' = Append(conns, Conn(phone, FALSE, FALSE, FALSE))
                         /\ answer' = Answer("connect", "CONNECTION_ERROR", FALSE)
                         /\ UNCHANGED <<is_connected, configFile>>
                    [] outcome # "fail" /\ phone \in sessions ->
                         /\ conns' = Append(conns, Conn(phone, TRUE, TRUE, FALSE))
                         /\ is_connected' = TRUE
                         /\ configFile' = save_config(configFile, phone)
                         /\ answer' = Answer("connect", "connected", FALSE)
                    [] OTHER ->
                         /\ conns' = Append(conns, Conn(phone, TRUE, FALSE, TRUE))
                         /\ answer' = Answer("connect", "waiting_code", FALSE)
                         /\ UNCHANGED <<is_connected, configFile>>
       /\ UNCHANGED <<source, pageVars, sessions, all_chats_cache, scan, del>>

\* POST /api/verify with a code that the source accepts (good) or not
verify(good) ==
    /\ IF client = 0 \/ ~conns[client].open \/ ~conns[client].code \/ ~good
       THEN /\ answer' = Answer("verify", "VERIFICATION_ERROR", FALSE)
            /\ UNCHANGED <<conns, is_connected, configFile, sessions>>
       ELSE /\ conns' = [conns EXCEPT ![client].auth = TRUE]
            /\ sessions' = sessions \cup {conns[client].phone}
            /\ is_connected' = TRUE
            /\ configFile' = save_config(configFile, conns[client].phone)
            /\ answer' = Answer("verify", "connected", FALSE)
    /\ UNCHANGED <<source, pageVars, client, config, all_chats_cache, scan, del>>

\* client.log_out() of client c: the session of its phone is invalidated and the
\* client disconnects
LoggedOut(cs, c) ==
    [i \in DOMAIN cs |->
        IF i = c THEN [cs[i] EXCEPT !.open = FALSE, !.auth = FALSE]
        ELSE IF cs[i].phone = cs[c].phone /\ cs[c].auth
             THEN [cs[i] EXCEPT !.auth = FALSE]
             ELSE cs[i]]

\* POST /api/logout; log_out() on a client that is not connected raises, and the
\* handler does not catch it
logout ==
    /\ IF client # 0 /\ ~conns[client].open
       THEN /\ answer' = Answer("logout", "INTERNAL_ERROR", FALSE)
            /\ UNCHANGED <<client, conns, is_connected, config, configFile,
                           sessions>>
       ELSE /\ conns' = IF client = 0 THEN conns ELSE LoggedOut(conns, client)
            /\ sessions' = IF client = 0 THEN sessions
                           ELSE sessions \ {conns[client].phone}
            /\ is_connected' = FALSE
            /\ client' = 0
            /\ config' = IF config.present
                         THEN save_config(configFile, NoPhone) ELSE config
            /\ configFile' = IF config.present
                             THEN save_config(configFile, NoPhone) ELSE configFile
            /\ answer' = Answer("logout", "OK", FALSE)
    /\ UNCHANGED <<source, pageVars, all_chats_cache, scan, del>>

\* POST /api/reset
reset_app ==
    /\ conns' = IF client = 0 THEN conns
                ELSE IF conns[client].open /\ conns[client].auth
                     THEN LoggedOut(conns, client)
                     ELSE [conns EXCEPT ![client].open = FALSE]
    /\ is_connected' = FALSE
    /\ client' = 0
    /\ config' = NoConfig
    /\ configFile' = NoConfig
    /\ sessions' = {}
    /\ answer' = Answer("reset", "OK", FALSE)
    /\ UNCHANGED <<source, pageVars, all_chats_cache, scan, del>>

\* auto_connect(), called by the lifespan handler of a new process
auto_connect ==
    /\ config' = configFile
    /\ IF configFile.present /\ configFile.phone \in sessions
       THEN /\ client' = 1
            /\ conns' = <<Conn(configFile.phone, TRUE, TRUE, FALSE)>>
            /\ is_connected' = TRUE
       ELSE /\ client' = 0
            /\ conns' = IF configFile.present /\ configFile.phone # NoPhone
                        THEN <<Conn(configFile.phone, FALSE, FALSE, FALSE)>>
                        ELSE <<>>
            /\ is_connected' = FALSE

\* the server process ends (its connections with it) and a new one starts
Restart ==
    /\ scan.pc = "idle"
    /\ del.pc = "idle"
    /\ auto_connect
    /\ all_chats_cache' = FALSE
    /\ answer' = NoAnswer
    /\ UNCHANGED <<source, pageVars, configFile, sessions, scan, del>>

\* GET /api/chats on the server
GetChats ==
    /\ IF NotConnected
       THEN /\ answer' = Answer("chats", "NOT_CONNECTED", FALSE)
            /\ UNCHANGED all_chats_cache
       ELSE IF Usable
       THEN /\ answer' = Answer("chats", "OK", TRUE)
            /\ all_chats_cache' = (get_chats(source) # <<>>)
       ELSE /\ answer' = Answer("chats", "LOAD_CHATS_ERROR", TRUE)
            /\ UNCHANGED all_chats_cache
    /\ UNCHANGED <<source, pageVars, client, conns, is_connected, config,
                   configFile, sessions, scan, del>>

\* GET /api/export/type: with an empty cache it calls load_chats(), a name the
\* module does not define
export_data_endpoint ==
    /\ answer' = IF NotConnected THEN Answer("export", "NOT_CONNECTED", FALSE)
                 ELSE IF ~all_chats_cache
                      THEN Answer("export", "INTERNAL_ERROR", FALSE)
                      ELSE Answer("export", "OK", FALSE)
    /\ UNCHANGED <<source, pageVars, client, conns, is_connected, config,
                   configFile, sessions, all_chats_cache, scan, del>>

\* the persons analyze probes with get_messages: not deleted, not a bot, scam or
\* fake, and within the probe budget
RECURSIVE ProbeQueue(_, _, _)
ProbeQueue(dialogs, k, checked) ==
    IF k > Len(dialogs) THEN <<>>
    ELSE LET e == Entity(dialogs[k])
         IN IF e.kind # "user" THEN ProbeQueue(dialogs, k + 1, checked)
            ELSE (IF ~e.deleted /\ ~e.bot /\ ~e.scam /\ ~e.fake
                     /\ checked + 1 <= ProbeBudget
                  THEN <<dialogs[k]>> ELSE <<>>)
                 \o ProbeQueue(dialogs, k + 1, checked + 1)

\* GET /api/analyze arrives: the guard, then iter_dialogs() is called
AnalyzeStart ==
    /\ scan.pc = "idle"
    /\ IF NotConnected
       THEN /\ answer' = Answer("analyze", "NOT_CONNECTED", FALSE)
            /\ UNCHANGED scan
       ELSE /\ scan' = [Idle EXCEPT !.pc = "listing"]
            /\ UNCHANGED answer
    /\ UNCHANGED <<source, pageVars, client, conns, is_connected, config,
                   configFile, sessions, all_chats_cache, del>>

\* the dialogs arrive (or the call raises): the first probe is issued, if any
AnalyzeListed ==
    /\ scan.pc = "listing"
    /\ IF ~Usable
       THEN /\ answer' = Answer("analyze", "ANALYSIS_ERROR", TRUE)
            /\ scan' = Idle
       ELSE LET queue == ProbeQueue(iter_dialogs(source), 1, 0)
            IN IF queue = <<>>
               THEN /\ answer' = Answer("analyze", "OK", TRUE)
                    /\ scan' = Idle
               ELSE /\ scan' = [Idle EXCEPT !.pc = "probe", !.queue = queue]
                    /\ UNCHANGED answer
    /\ UNCHANGED <<source, pageVars, client, conns, is_connected, config,
                   configFile, sessions, all_chats_cache, del>>

\* a probe ends (a probe that raises counts as no messages): the next probe is
\* issued, or the answer is given
AnalyzeProbed ==
    /\ scan.pc = "probe"
    /\ IF Len(scan.queue) = 1
       THEN /\ answer' = Answer("analyze", "OK", TRUE)
            /\ scan' = Idle
       ELSE /\ scan' = [scan EXCEPT !.queue = Tail(@)]
            /\ UNCHANGED answer
    /\ UNCHANGED <<source, pageVars, client, conns, is_connected, config,
                   configFile, sessions, all_chats_cache, del>>

\* POST /api/delete/id arrives: the guard, then get_entity(id) is called
DeleteStart(id) ==
    /\ del.pc = "idle"
    /\ IF NotConnected
       THEN /\ answer' = Answer("delete", "NOT_CONNECTED", FALSE)
            /\ UNCHANGED del
       ELSE /\ del' = [Idle EXCEPT !.pc = "get_entity", !.id = id]
            /\ UNCHANGED answer
    /\ UNCHANGED <<source, pageVars, client, conns, is_connected, config,
                   configFile, sessions, all_chats_cache, scan>>

\* the seconds a flood wait of the source asks for
WaitSeconds == {5, 75}

\* what the source raises: the name of the exception type, whether its text holds
\* "flood", and the first number in its text (0: none).  "rate" is a flood wait of
\* seconds, "flood" a rate limit signalled by another flood error, without a number
Raised(outcome, seconds) ==
    IF outcome = "rate"
    THEN [name |-> "FloodWaitError", flood |-> FALSE, number |-> seconds]
    ELSE IF outcome = "flood"
    THEN [name |-> "FloodError", flood |-> TRUE, number |-> 0]
    ELSE IF outcome = "gone"
    THEN [name |-> "ValueError", flood |-> FALSE, number |-> 0]
    ELSE [name |-> "RPCError", flood |-> FALSE, number |-> seconds]

\* the answer of an except branch that takes every error for a flood wait
DeleteAlwaysFlood(e) ==
    [op |-> "delete", code |-> "RATE_LIMITED", called |-> TRUE,
     retry_after |-> IF e.number # 0 THEN e.number ELSE 30]

\* the answer of delete_chat when a call to the source raised e
DeleteError(e) ==
    IF e.name = "FloodWaitError" \/ e.flood
    THEN [op |-> "delete", code |-> "RATE_LIMITED", called |-> TRUE,
          retry_after |-> IF e.number # 0 THEN e.number ELSE 30]
    ELSE Answer("delete", "DELETE_ERROR", TRUE)

\* the status the exception handlers and the return statements give an answer
Status(a) ==
    CASE a.code \in {"OK", "connected", "waiting_code"} -> 200
      [] a.code = "RATE_LIMITED" -> 429
      [] a.code = "INTERNAL_ERROR" -> 500
      [] OTHER -> 400

\* get_entity returns and delete_dialog is called, or get_entity raises
DeleteEntity(outcome, seconds) ==
    /\ del.pc = "get_entity"
    /\ outcome = "ok" => Usable
    /\ outcome = "gone" => del.id \notin source
    /\ IF outcome = "ok"
       THEN /\ del' = [del EXCEPT !.pc = "delete_dialog"]
            /\ UNCHANGED answer
       ELSE /\ answer' = DeleteError(Raised(outcome, seconds))
            /\ del' = Idle
    /\ UNCHANGED <<source, pageVars, client, conns, is_connected, config,
                   configFile, sessions, all_chats_cache, scan>>

\* delete_dialog returns or raises
DeleteDone(outcome, seconds) ==
    /\ del.pc = "delete_dialog"
    /\ outcome = "ok" => Usable
    /\ outcome = "gone" => del.id \notin source
    /\ source' = delete_chat(source, del.id, outcome)
    /\ answer' = IF outcome = "ok" THEN Answer("delete", "OK", TRUE)
                 ELSE DeleteError(Raised(outcome, seconds))
    /\ del' = Idle
    /\ UNCHANGED <<pageVars, client, conns, is_connected, config, configFile,
                   sessions, all_chats_cache, scan>>

\* a fresh installation: no configuration, no session file, no client
ServerDown ==
    /\ client = 0
    /\ conns = <<>>
    /\ is_connected = FALSE
    /\ config = NoConfig
    /\ configFile = NoConfig
    /\ sessions = {}
    /\ all_chats_cache = FALSE
    /\ scan = Idle
    /\ del = Idle
    /\ answer = NoAnswer

\* a server connected as phone 1 that has listed the chats
ServerUp ==
    /\ client = 1
    /\ conns = <<Conn(1, TRUE, TRUE, FALSE)>>
    /\ is_connected = TRUE
    /\ config = [present |-> TRUE, phone |-> NoPhone]
    /\ configFile = [present |-> TRUE, phone |-> 1]
    /\ sessions = {1}
    /\ all_chats_cache = TRUE
    /\ scan = Idle
    /\ del = Idle
    /\ answer = NoAnswer

(***************************************************************************)
(* Classification and spam analysis as functions of the entities listed:   *)
(* categorize_chats, print_chat_statistics and analyze_user_chats of       *)
(* src/src/cli_manager.py, get_chats and analyze of fastapi_manager.py and *)
(* of portable_manager.py.  An entity list is a sequence of records; the   *)
(* lists a function returns hold positions of its input, since the code    *)
(* appends the objects themselves.                                         *)
(***************************************************************************)
\* what get_messages does for a person: it raises, returns no message, returns
\* incoming messages only, or returns a message the account sent
Probes == {"raise", "zero", "in", "out"}

EntityRec(kind, deleted, bot, scam, fake, probe, broadcast, megagroup) ==
    [kind |-> kind, deleted |-> deleted, bot |-> bot, scam |-> scam,
     fake |-> fake, probe |-> probe, broadcast |-> broadcast,
     megagroup |-> megagroup]

\* the User objects
Persons ==
    {EntityRec("user", d, b, s, f, p, FALSE, FALSE) :
        d \in BOOLEAN, b \in BOOLEAN, s \in BOOLEAN, f \in BOOLEAN, p \in Probes}

\* User, Chat, Channel, and an object of another type (ChatForbidden, ...)
Entities ==
    Persons
    \cup {EntityRec("chat", FALSE, FALSE, FALSE, FALSE, "zero", FALSE, FALSE)}
    \cup {EntityRec("channel", FALSE, FALSE, FALSE, FALSE, "zero", bc, mg) :
             bc \in BOOLEAN, mg \in BOOLEAN}
    \cup {EntityRec("other", FALSE, FALSE, FALSE, FALSE, "zero", FALSE, FALSE)}

Lists == UNION {[1..n -> Entities] : n \in 0..MaxList}

\* the positions of list that are in wanted, in order
Indices(list, wanted) ==
    SelectSeq([i \in 1..Len(list) |-> i], LAMBDA i : i \in wanted)

\* the list categorize_chats appends a chat to
Category(chat) ==
    IF chat.kind = "user" THEN "users"
    ELSE IF chat.kind = "chat" THEN "basic_groups"
    ELSE IF chat.kind = "channel"
         THEN (IF chat.broadcast THEN "channels" ELSE "supergroups")
         ELSE "unknown"

\* a categorization that drops what is no person, group or channel
categorize_known(all_chats) ==
    LET In(c) == Indices(all_chats,
                         {i \in 1..Len(all_chats) : Category(all_chats[i]) = c})
    IN [groups |-> In("basic_groups") \o In("supergroups"),
        supergroups |-> In("supergroups"),
        basic_groups |-> In("basic_groups"),
        channels |-> In("channels"),
        users |-> In("users"),
        unknown |-> <<>>]

categorize_chats(all_chats) ==
    LET In(c) == Indices(all_chats,
                         {i \in 1..Len(all_chats) : Category(all_chats[i]) = c})
    IN [groups |-> In("basic_groups") \o In("supergroups"),
        supergroups |-> In("supergroups"),
        basic_groups |-> In("basic_groups"),
        channels |-> In("channels"),
        users |-> In("users"),
        unknown |-> In("unknown")]

\* print_chat_statistics: the number printed as "Total Chats", the sum of the
\* lengths of every value of the dictionary
print_chat_statistics(categorized) ==
    Len(categorized.groups) + Len(categorized.supergroups)
    + Len(categorized.basic_groups) + Len(categorized.channels)
    + Len(categorized.users) + Len(categorized.unknown)

\* get_chats of fastapi_manager.py: the type given to a chat and the statistic it
\* is counted in
FastapiType(chat) ==
    IF chat.kind = "user" THEN [type |-> "user", stat |-> "users"]
    ELSE IF chat.kind = "channel"
         THEN (IF chat.broadcast THEN [type |-> "channel", stat |-> "channels"]
               ELSE [type |-> "supergroup", stat |-> "groups"])
         ELSE [type |-> "group", stat |-> "groups"]

\* get_chats of portable_manager.py
PortableType(chat) ==
    IF chat.kind = "user" THEN [type |-> "user", stat |-> "users"]
    ELSE IF chat.kind = "channel"
         THEN (IF chat.broadcast THEN [type |-> "channel", stat |-> "channels"]
               ELSE [type |-> "supergroup", stat |-> "groups"])
    ELSE IF chat.kind = "chat" THEN [type |-> "group", stat |-> "groups"]
    ELSE [type |-> "unknown", stat |-> "none"]

\* get_chats of web_app.py
WebAppType(chat) ==
    IF chat.kind = "user" THEN [type |-> "user", stat |-> "users"]
    ELSE IF chat.kind = "channel"
         THEN (IF chat.broadcast THEN [type |-> "channel", stat |-> "channels"]
               ELSE [type |-> "supergroup", stat |-> "groups"])
    ELSE IF chat.kind = "chat" THEN [type |-> "group", stat |-> "groups"]
    ELSE [type |-> "unknown", stat |-> "none"]

TypeOf(backend, chat) ==
    IF backend = "fastapi" THEN FastapiType(chat)
    ELSE IF backend = "web_app" THEN WebAppType(chat)
    ELSE PortableType(chat)

\* the answer of get_chats of a backend: the types in order, and the stats
Listing(dialogs, backend) ==
    [types |-> [i \in 1..Len(dialogs) |-> TypeOf(backend, dialogs[i]).type],
     stats |-> [st \in {"groups", "channels", "users"} |->
                   Cardinality({i \in 1..Len(dialogs) :
                                   TypeOf(backend, dialogs[i]).stat = st})],
     total |-> Len(dialogs)]

\* the buckets of an analysis
Buckets == {"deleted", "no_messages", "only_incoming", "bots", "scam", "fake",
            "active"}

\* a priority that looks at the bot flag before the deleted flag
FlagBucketBotFirst(user) ==
    IF user.bot THEN "bots"
    ELSE IF user.deleted THEN "deleted"
    ELSE IF user.scam THEN "scam"
    ELSE IF user.fake THEN "fake"
    ELSE "none"

\* the elif chain of the analyses over the flags of a person
FlagBucket(user) ==
    IF user.deleted THEN "deleted"
    ELSE IF user.bot THEN "bots"
    ELSE IF user.scam THEN "scam"
    ELSE IF user.fake THEN "fake"
    ELSE "none"

\* a placement that probes without a budget
PlaceWebNoBudget(user, users_checked) ==
    IF FlagBucket(user) # "none"
    THEN [bucket |-> FlagBucket(user), probed |-> FALSE]
    ELSE [bucket |-> IF user.probe \in {"raise", "zero"}
                     THEN "no_messages" ELSE "active",
          probed |-> TRUE]

\* a placement that takes a probe that raises for an active chat
PlaceWebRaiseActive(user, users_checked) ==
    IF FlagBucket(user) # "none"
    THEN [bucket |-> FlagBucket(user), probed |-> FALSE]
    ELSE IF users_checked <= ProbeBudget
         THEN [bucket |-> IF user.probe = "zero" THEN "no_messages" ELSE "active",
               probed |-> TRUE]
         ELSE [bucket |-> "active", probed |-> FALSE]

\* analyze of the web backends, one person: the bucket it is appended to and
\* whether get_messages was called; users_checked counts this person
PlaceWeb(user, users_checked) ==
    IF FlagBucket(user) # "none"
    THEN [bucket |-> FlagBucket(user), probed |-> FALSE]
    ELSE IF users_checked <= ProbeBudget
         THEN [bucket |-> IF user.probe \in {"raise", "zero"}
                          THEN "no_messages" ELSE "active",
               probed |-> TRUE]
         ELSE [bucket |-> "active", probed |-> FALSE]

\* analyze_user_chats of cli_manager.py, one person
PlaceCli(user) ==
    IF FlagBucket(user) # "none"
    THEN [bucket |-> FlagBucket(user), probed |-> FALSE]
    ELSE [bucket |-> CASE user.probe \in {"raise", "zero"} -> "no_messages"
                       [] user.probe = "in" -> "only_incoming"
                       [] OTHER -> "active",
          probed |-> TRUE]

EmptyScan == [users |-> [b \in Buckets |-> <<>>], probes |-> <<>>]

\* a scan that stops at the first person that is over the budget
RECURSIVE AnalyzeWebTruncated(_, _, _, _)
AnalyzeWebTruncated(dialogs, k, users_checked, acc) ==
    IF k > Len(dialogs) THEN acc
    ELSE IF dialogs[k].kind # "user"
    THEN AnalyzeWebTruncated(dialogs, k + 1, users_checked, acc)
    ELSE LET p == PlaceWeb(dialogs[k], users_checked + 1)
         IN IF dialogs[k].probe = "raise" /\ p.probed THEN acc
            ELSE AnalyzeWebTruncated(dialogs, k + 1, users_checked + 1,
                    [users  |-> [acc.users EXCEPT ![p.bucket] = Append(@, k)],
                     probes |-> IF p.probed THEN Append(acc.probes, k)
                                ELSE acc.probes])

\* the loop of analyze over the dialogs, persons only
RECURSIVE AnalyzeWeb(_, _, _, _)
AnalyzeWeb(dialogs, k, users_checked, acc) ==
    IF k > Len(dialogs) THEN acc
    ELSE IF dialogs[k].kind # "user"
    THEN AnalyzeWeb(dialogs, k + 1, users_checked, acc)
    ELSE LET p == PlaceWeb(dialogs[k], users_checked + 1)
         IN AnalyzeWeb(dialogs, k + 1, users_checked + 1,
                       [users  |-> [acc.users EXCEPT ![p.bucket] = Append(@, k)],
                        probes |-> IF p.probed THEN Append(acc.probes, k)
                                   ELSE acc.probes])

\* the loop of analyze_user_chats over the positions users of the entity list
RECURSIVE analyze_user_chats(_, _, _, _)
analyze_user_chats(all_chats, users, k, acc) ==
    IF k > Len(users) THEN acc
    ELSE LET p == PlaceCli(all_chats[users[k]])
         IN analyze_user_chats(all_chats, users, k + 1,
                [users  |-> [acc.users EXCEPT ![p.bucket] = Append(@, users[k])],
                 probes |-> IF p.probed THEN Append(acc.probes, users[k])
                            ELSE acc.probes])

\* the chat_data dictionaries get_chats of web_app.py stores in all_chats_cache
WebAppCache(dialogs) ==
    [i \in 1..Len(dialogs) |-> [id |-> i, type |-> WebAppType(dialogs[i]).type]]

\* the list "users" of analyze of web_app.py: the cached dictionaries of type
\* user, or, when there is none, the User entities fetched from the source
WebAppUsers(dialogs, cache) ==
    LET cached  == SelectSeq(cache, LAMBDA c : c.type = "user")
        fetched == Indices(dialogs,
                           {i \in 1..Len(dialogs) : dialogs[i].kind = "user"})
    IN IF cached # <<>>
       THEN [k \in 1..Len(cached) |-> [dict |-> TRUE, pos |-> cached[k].id]]
       ELSE [k \in 1..Len(fetched) |-> [dict |-> FALSE, pos |-> fetched[k]]]

\* analyze of web_app.py, one User entity: no probe budget
PlaceWebApp(user) ==
    IF FlagBucket(user) # "none"
    THEN [bucket |-> FlagBucket(user), probed |-> FALSE]
    ELSE [bucket |-> IF user.probe \in {"raise", "zero"}
                     THEN "no_messages" ELSE "active",
          probed |-> TRUE]

\* the loop of analyze of web_app.py over users: a dictionary is skipped
RECURSIVE WebAppAnalyze(_, _, _, _)
WebAppAnalyze(dialogs, users, k, acc) ==
    IF k > Len(users) THEN acc
    ELSE IF users[k].dict THEN WebAppAnalyze(dialogs, users, k + 1, acc)
    ELSE LET p == PlaceWebApp(dialogs[users[k].pos])
         IN WebAppAnalyze(dialogs, users, k + 1,
                [users  |-> [acc.users EXCEPT ![p.bucket] = Append(@, users[k].pos)],
                 probes |-> IF p.probed THEN Append(acc.probes, users[k].pos)
                            ELSE acc.probes])

\* the "counts" of the answer of a web analyze with the given keys
Counts(scanned, keys) == [b \in keys |-> Len(scanned.users[b])]

NoOut == [op |-> "none"]

\* users_checked is the counter of analyze; the rest is history: the number of
\* get_messages calls and of flagged persons so far, and what the last dialog was
\* and where it went
NoRun == [users_checked |-> 0, probes |-> 0, flagged_seen |-> 0, user |-> FALSE,
          flagged |-> FALSE, bucket |-> "none", probed |-> FALSE]

\* all_chats_cache = None of web_app.py; the code only tests it for truth, and an
\* empty list is as false as None
NoCache == <<>>

NoInput ==
    /\ input = <<>>
    /\ out = NoOut
    /\ run = NoRun
    /\ web_app_cache = NoCache

\* categorize_chats(all_chats) is called
Categorize ==
    /\ out' = [op |-> "categorize", categorized |-> categorize_chats(input)]
    /\ UNCHANGED <<source, pageVars, srvVars, input, run, web_app_cache>>

\* print_chat_statistics(categorize_chats(all_chats)) is called, as main() does
PrintStatistics ==
    /\ out' = [op |-> "statistics",
               total |-> print_chat_statistics(categorize_chats(input))]
    /\ UNCHANGED <<source, pageVars, srvVars, input, run, web_app_cache>>

\* the chat listing of a web backend
ListChats(backend) ==
    /\ out' = [op |-> "list", backend |-> backend,
               listing |-> Listing(input, backend)]
    /\ UNCHANGED <<source, pageVars, srvVars, input, run, web_app_cache>>

\* the keys of the analysis object of each variant
BucketsOf(backend) ==
    IF backend = "fastapi" THEN Buckets \ {"only_incoming"} ELSE Buckets

\* a spam analysis returns: of a web backend over the dialogs, or of the command
\* line tool over the persons of the categorization
Analyze(backend) ==
    LET scanned == IF backend = "cli"
                   THEN analyze_user_chats(input, categorize_chats(input).users,
                                           1, EmptyScan)
                   ELSE AnalyzeWeb(input, 1, 0, EmptyScan)
    IN /\ out' = [op |-> "analyze", backend |-> backend, scanned |-> scanned,
                  counts |-> Counts(scanned, BucketsOf(backend))]
       /\ UNCHANGED <<source, pageVars, srvVars, input, run, web_app_cache>>

\* one turn of the loop of a web analyze over a long listing: the next dialog is
\* any entity; only the counters and the placement of this dialog are kept
ScanStep(chat) ==
    /\ run.users_checked < MaxScan
    /\ IF chat.kind # "user"
       THEN run' = [run EXCEPT !.user = FALSE, !.flagged = FALSE,
                               !.bucket = "none", !.probed = FALSE]
       ELSE LET p == PlaceWeb(chat, run.users_checked + 1)
            IN run' = [users_checked |-> run.users_checked + 1,
                       probes |-> run.probes + (IF p.probed THEN 1 ELSE 0),
                       flagged_seen |-> run.flagged_seen
                                        + (IF FlagBucket(chat) # "none" THEN 1 ELSE 0),
                       user |-> TRUE,
                       flagged |-> FlagBucket(chat) # "none",
                       bucket |-> p.bucket,
                       probed |-> p.probed]
    /\ UNCHANGED <<source, pageVars, srvVars, input, out, web_app_cache>>

PageInit ==
    /\ currentChats = get_chats(Ids)
    /\ analysisData = Undefined
    /\ selectedChats = <<>>
    /\ pendingDeletes = <<>>
    /\ timers = <<>>
    /\ toast = NoToast
    /\ progressModal = FALSE
    /\ bulkDeleteCancelled = FALSE
    /\ requests = [id \in Ids |-> 0]
    /\ alerts = {}
    /\ cancelPressed = FALSE

\* the page is open on a server with a live session
Init ==
    /\ source = Ids
    /\ PageInit
    /\ ServerUp
    /\ NoInput

Next ==
    \/ \E id \in Ids : DeleteClick(id)
       /\ UNCHANGED <<srvVars, cliVars>>
    \/ UndoClick
       /\ UNCHANGED <<srvVars, cliVars>>
    \/ ToastExpire
       /\ UNCHANGED <<srvVars, cliVars>>
    \/ \E t \in DOMAIN timers : SingleFire(t)
       /\ UNCHANGED <<srvVars, cliVars>>
    \/ \E t \in DOMAIN timers, o \in Outcomes : SingleRespond(t, o)
       /\ UNCHANGED <<srvVars, cliVars>>
    \/ \E t \in DOMAIN timers : SingleStatsDone(t)
       /\ UNCHANGED <<srvVars, cliVars>>
    \/ \E t \in DOMAIN timers : RetryFire(t)
       /\ UNCHANGED <<srvVars, cliVars>>
    \/ \E id \in Ids : toggleChatSelection(id)
       /\ UNCHANGED <<srvVars, cliVars>>
    \/ deleteSelected
       /\ UNCHANGED <<srvVars, cliVars>>
    \/ \E t \in DOMAIN timers : BulkFire(t)
       /\ UNCHANGED <<srvVars, cliVars>>
    \/ \E t \in DOMAIN timers, o \in Outcomes : BulkRespond(t, o)
       /\ UNCHANGED <<srvVars, cliVars>>
    \/ \E t \in DOMAIN timers : BulkRetry(t)
       /\ UNCHANGED <<srvVars, cliVars>>
    \/ \E t \in DOMAIN timers, o \in Outcomes : BulkRespond2(t, o)
       /\ UNCHANGED <<srvVars, cliVars>>
    \/ CancelClick
       /\ UNCHANGED <<srvVars, cliVars>>
    \/ loadChats
       /\ UNCHANGED <<srvVars, cliVars>>
    \/ analyzeSpam
       /\ UNCHANGED <<srvVars, cliVars>>

Spec == Init /\ [][Next]_vars

\* the server with the requests any client can send it
InitServer ==
    /\ source = ServerIds
    /\ PageInit
    /\ ServerDown
    /\ NoInput

ServerOutcomes == {"ok", "rate", "flood", "err", "gone"}

NextServer ==
    \/ save_app_config
       /\ UNCHANGED cliVars
    \/ \E phone \in Phones, outcome \in {"up", "fail"} : connect(phone, outcome)
       /\ UNCHANGED cliVars
    \/ \E good \in BOOLEAN : verify(good)
       /\ UNCHANGED cliVars
    \/ logout
       /\ UNCHANGED cliVars
    \/ reset_app
       /\ UNCHANGED cliVars
    \/ Restart
       /\ UNCHANGED cliVars
    \/ GetChats
       /\ UNCHANGED cliVars
    \/ export_data_endpoint
       /\ UNCHANGED cliVars
    \/ AnalyzeStart
       /\ UNCHANGED cliVars
    \/ AnalyzeListed
       /\ UNCHANGED cliVars
    \/ AnalyzeProbed
       /\ UNCHANGED cliVars
    \/ \E id \in ServerIds : DeleteStart(id)
       /\ UNCHANGED cliVars
    \/ \E outcome \in ServerOutcomes, seconds \in WaitSeconds :
          DeleteEntity(outcome, seconds)
       /\ UNCHANGED cliVars
    \/ \E outcome \in ServerOutcomes, seconds \in WaitSeconds :
          DeleteDone(outcome, seconds)
       /\ UNCHANGED cliVars

SpecServer == InitServer /\ [][NextServer]_vars

\* a step of the commit loop of batch t: an awaited fetch settles, an awaited delay
\* ends
BulkStep(t) ==
    /\ t \in DOMAIN timers
    /\ \/ BulkRetry(t)
       \/ \E o \in Outcomes : BulkRespond(t, o) \/ BulkRespond2(t, o)
    /\ UNCHANGED <<srvVars, cliVars>>

\* the page used for bulk deletes and spam analysis only, without a refresh of the
\* chat list
NextBulk ==
    \/ UndoClick
       /\ UNCHANGED <<srvVars, cliVars>>
    \/ ToastExpire
       /\ UNCHANGED <<srvVars, cliVars>>
    \/ \E id \in Ids : toggleChatSelection(id)
       /\ UNCHANGED <<srvVars, cliVars>>
    \/ deleteSelected
       /\ UNCHANGED <<srvVars, cliVars>>
    \/ \E t \in DOMAIN timers : BulkFire(t)
       /\ UNCHANGED <<srvVars, cliVars>>
    \/ \E t \in DOMAIN timers, o \in Outcomes : BulkRespond(t, o)
       /\ UNCHANGED <<srvVars, cliVars>>
    \/ \E t \in DOMAIN timers : BulkRetry(t)
       /\ UNCHANGED <<srvVars, cliVars>>
    \/ \E t \in DOMAIN timers, o \in Outcomes : BulkRespond2(t, o)
       /\ UNCHANGED <<srvVars, cliVars>>
    \/ CancelClick
       /\ UNCHANGED <<srvVars, cliVars>>
    \/ analyzeSpam
       /\ UNCHANGED <<srvVars, cliVars>>

\* every awaited promise of a running commit loop settles
SpecBulkFair ==
    /\ Init
    /\ [][NextBulk]_vars
    /\ \A t \in 1..MaxTimers : WF_vars(BulkStep(t))


\* GET /api/chats of web_app.py: the listing is answered and stored in the cache
WebAppGetChats ==
    /\ web_app_cache' = WebAppCache(input)
    /\ out' = [op |-> "list", backend |-> "web_app",
               listing |-> Listing(input, "web_app")]
    /\ UNCHANGED <<source, pageVars, srvVars, input, run>>

\* GET /api/analyze of web_app.py
WebAppAnalyzeRequest ==
    LET scanned == WebAppAnalyze(input, WebAppUsers(input, web_app_cache), 1,
                                 EmptyScan)
    IN /\ out' = [op |-> "analyze", backend |-> "web_app", scanned |-> scanned,
                  counts |-> Counts(scanned, BucketsOf("fastapi"))]
       /\ UNCHANGED <<source, pageVars, srvVars, input, run, web_app_cache>>

InitClassify ==
    /\ source = Ids
    /\ PageInit
    /\ ServerDown
    /\ input \in Lists
    /\ out = NoOut
    /\ run = NoRun
    /\ web_app_cache = NoCache

NextClassify ==
    \/ Categorize
    \/ PrintStatistics
    \/ \E backend \in {"fastapi", "portable"} : ListChats(backend)
    \/ \E backend \in {"fastapi", "portable", "cli"} : Analyze(backend)
    \/ WebAppGetChats
    \/ WebAppAnalyzeRequest

SpecClassify == InitClassify /\ [][NextClassify]_vars

InitScan ==
    /\ source = Ids
    /\ PageInit
    /\ ServerDown
    /\ NoInput

NextScan == \E chat \in Entities : ScanStep(chat)

SpecScan == InitScan /\ [][NextScan]_vars

(***************************************************************************)
(* Vocabulary of the claims.                                               *)
(***************************************************************************)
\* item is a member of the list it was taken from
Listed(chats, data, item) ==
    IF item.source = "main" THEN Contains(chats, item.chat)
    ELSE /\ item.category \in DOMAIN data
         /\ Contains(data[item.category], item.chat)

\* id is shown in no list, neither the main list nor an analysis category
Hidden(id) == ~findChatById(id).found

\* timer t is a commit timer that targets chat id
Targets(t, id) ==
    /\ timers[t].kind \in {"single", "bulk"}
    /\ \E k \in DOMAIN timers[t].ids : timers[t].ids[k] = id

\* nothing is armed, in flight or backing off
Quiescent == \A t \in DOMAIN timers : timers[t].pc \in {"done", "cancelled"}

IsBulkKey(key) == key > BulkBase

(***************************************************************************)
(* C1.  Single delete followed by undo before the timer fires: when        *)
(* undoDelete(id) runs while a commit timer of deleteChat(id) is armed,    *)
(* that timer is cancelled (no delete request is ever issued by it) and    *)
(* the entity is again a member of the list that deleteChat took it from.  *)
(***************************************************************************)
C1_UndoBeforeTimerFires ==
    [][UndoClick =>
         \A t \in DOMAIN timers :
            (timers[t].kind = "single" /\ timers[t].key = toast
                /\ timers[t].pc = "armed")
            => /\ timers'[t].pc = "cancelled"
               /\ Listed(currentChats', analysisData', timers[t].items[1])]_vars

(***************************************************************************)
(* C2.  Undo is a no-op once the commit has started: when undoDelete(id)   *)
(* runs while the delete request of the pending delete of id is in flight  *)
(* (or backing off), no list changes.                                      *)
(***************************************************************************)
C2_UndoNoOpWhileCommitting ==
    [][UndoClick =>
         ((\E t \in DOMAIN timers :
              /\ timers[t].key = toast
              /\ timers[t].pc \in {"fetch", "wait", "fetch2"})
          => /\ currentChats' = currentChats
             /\ analysisData' = analysisData)]_vars

(***************************************************************************)
(* C3.  A committed entity is never restored: when undoDelete runs after   *)
(* the delete request of the entity (single) or of an entity of the batch  *)
(* (bulk) was answered with success, no list changes.                      *)
(***************************************************************************)
C3_UndoAfterCommitNoOp ==
    [][UndoClick =>
         ((\E t \in DOMAIN timers :
              /\ timers[t].key = toast
              /\ \/ timers[t].kind = "single" /\ timers[t].pc = "stats"
                 \/ timers[t].kind = "bulk" /\ timers[t].deleted > 0)
          => /\ currentChats' = currentChats
             /\ analysisData' = analysisData)]_vars

(***************************************************************************)
(* C4.  An entity id is targeted by at most one pending delete at a time:  *)
(* there is never more than one armed commit timer for the same id.        *)
(***************************************************************************)
C4_OnePendingDeletePerId ==
    \A id \in Ids :
       Cardinality({t \in DOMAIN timers :
                       Targets(t, id) /\ timers[t].pc = "armed"}) <= 1

(***************************************************************************)
(* C5.  Rate-limit retry of a single delete: when the delay signaled by a  *)
(* rate-limited answer is over, exactly one further delete request for     *)
(* the same id is issued.                                                  *)
(***************************************************************************)
C5_SingleRetryIssuesRequest ==
    [][\A t \in DOMAIN timers :
          RetryFire(t) =>
             requests' = [requests EXCEPT ![timers[t].key] = @ + 1]]_vars

(***************************************************************************)
(* C6.  Rollback on failure: when the commit request of an entity, single  *)
(* or part of a bulk batch, fails for a reason other than a rate limit,    *)
(* the snapshot of the entity is re-inserted into the list it was taken    *)
(* from and the failure is shown to the user.                              *)
(***************************************************************************)
C6_RollbackOnFailure ==
    [][\A t \in DOMAIN timers : \A o \in {"err", "net"} :
          (SingleRespond(t, o) \/ BulkRespond(t, o)) =>
             LET id == IF timers[t].kind = "single" THEN timers[t].key
                       ELSE timers[t].ids[timers[t].i]
             IN /\ id \in alerts'
                /\ \A k \in DOMAIN timers[t].items :
                      timers[t].items[k].chat = id =>
                         Listed(currentChats', analysisData',
                                timers[t].items[k])]_vars

(***************************************************************************)
(* C7.  Eventual reconciliation: once every timer has fired or was         *)
(* cancelled and every request was answered, no entity that still exists   *)
(* at the source is hidden from the lists.                                 *)
(***************************************************************************)
C7_ReconciledAtRest ==
    Quiescent => \A id \in source : ~Hidden(id)

(***************************************************************************)
(* C8.  While a pending delete of an entity is armed, the entity is a      *)
(* member of no visible list.                                              *)
(***************************************************************************)
C8_ArmedMeansHidden ==
    \A t \in DOMAIN timers :
       (timers[t].kind \in {"single", "bulk"} /\ timers[t].pc = "armed") =>
          \A k \in DOMAIN timers[t].items : Hidden(timers[t].items[k].chat)

(***************************************************************************)
(* C9.  Bulk undo-all: "delete selected" arms one shared timer, and        *)
(* undoing the batch while its record is pending cancels that timer        *)
(* before it fired, issues no delete request, and leaves every            *)
(* snapshotted entity of the batch a member of the list it was taken from. *)
(***************************************************************************)
C9_BulkUndoAll ==
    [][/\ deleteSelected =>
            /\ Len(timers') = Len(timers) + 1
            /\ DOMAIN pendingDeletes' = DOMAIN pendingDeletes \cup {toast'}
            /\ \A k \in DOMAIN pendingDeletes'[toast'].items :
                  ~Listed(currentChats', analysisData',
                          pendingDeletes'[toast'].items[k])
       /\ (UndoClick /\ IsBulkKey(toast) /\ toast \in DOMAIN pendingDeletes) =>
            LET pending == pendingDeletes[toast]
            IN /\ timers[pending.timeoutId].pc = "armed"
               /\ timers'[pending.timeoutId].pc = "cancelled"
               /\ timers'[pending.timeoutId].i = 0
               /\ requests' = requests
               /\ \A k \in DOMAIN pending.items :
                     Listed(currentChats', analysisData', pending.items[k])]_vars

\* a batch of two entities was undone and both are back in the main list
C9_Witness ==
    \E t \in DOMAIN timers :
       /\ timers[t].kind = "bulk"
       /\ timers[t].pc = "cancelled"
       /\ Len(timers[t].items) = 2
       /\ \A k \in DOMAIN timers[t].items :
             Listed(currentChats, analysisData, timers[t].items[k])
       /\ requests = [id \in Ids |-> 0]

(***************************************************************************)
(* C10.  Cancel during a bulk commit: after Cancel was pressed in the      *)
(* progress dialog, a running bulk commit starts no further item.          *)
(***************************************************************************)
C10_CancelStopsBatch ==
    [][cancelPressed =>
         \A t \in DOMAIN timers :
            (timers[t].kind = "bulk" /\ timers[t].i > 0) =>
               timers'[t].i = timers[t].i]_vars


(***************************************************************************)
(* C11.  A batch of 2 cancelled after the first commit succeeded and       *)
(* before the second is attempted: the first entity is gone from the       *)
(* source, no request is issued for the second, the second is back in its  *)
(* origin list, and one item is counted as committed.                      *)
(***************************************************************************)
C11_CancelRollsBackUnattempted ==
    [][\A t \in DOMAIN timers :
          (/\ cancelPressed
           /\ timers[t].kind = "bulk"
           /\ Len(timers[t].ids) = 2
           /\ timers[t].i = 1
           /\ BulkRespond(t, "ok"))
          => LET first  == timers[t].ids[1]
                 second == timers[t].ids[2]
             IN /\ first \notin source'
                /\ timers'[t].pc = "done"
                /\ timers'[t].deleted = 1
                /\ requests'[second] = requests[second]
                /\ \A k \in DOMAIN timers[t].items :
                      timers[t].items[k].chat = second =>
                         Listed(currentChats', analysisData',
                                timers[t].items[k])]_vars

(***************************************************************************)
(* C12.  Per-item accounting: when a bulk commit has run to its end,       *)
(* deleted + failed equals the number of items of the batch.               *)
(***************************************************************************)
C12_BulkAccounting ==
    \A t \in DOMAIN timers :
       (timers[t].kind = "bulk" /\ timers[t].pc = "done") =>
          timers[t].deleted + timers[t].failed = Len(timers[t].ids)

(***************************************************************************)
(* C13.  A bulk commit always terminates and never loops on rate limits:   *)
(* every step of a running batch moves it forward (an item gets at most a  *)
(* first request, one wait and one second request, then the loop goes to   *)
(* the next item), a batch that has started ends, and when it ends after   *)
(* its last item the progress dialog is closed.                            *)
(***************************************************************************)
Running(t) ==
    /\ t \in DOMAIN timers
    /\ timers[t].kind = "bulk"
    /\ timers[t].pc \in {"fetch", "wait", "fetch2"}

Ended(t) == t \in DOMAIN timers /\ timers[t].pc = "done"

\* what is left to do for a batch: three steps at most per item
Rank(r) ==
    IF r.pc = "done" THEN 0
    ELSE 3 * (Len(r.ids) - r.i)
         + (CASE r.pc = "fetch" -> 3 [] r.pc = "wait" -> 2 [] OTHER -> 1)

C13_Progress ==
    \A t \in DOMAIN timers :
       (Running(t) /\ timers'[t] # timers[t]) =>
          /\ timers'[t].pc \in {"fetch", "wait", "fetch2", "done"}
          /\ Rank(timers'[t]) < Rank(timers[t])
          /\ timers'[t].pc = "wait" => timers[t].pc = "fetch"
          /\ timers'[t].pc = "fetch2" => timers[t].pc = "wait"
          /\ timers'[t].pc = "done" =>
                /\ ~progressModal'
                /\ ~bulkDeleteCancelled => timers[t].i = Len(timers[t].ids)

C13_BulkTerminates ==
    /\ [][C13_Progress]_vars
    /\ \A t \in 1..MaxTimers : Running(t) ~> Ended(t)

\* a batch ended after its first item was rate limited and requested twice
C13_Witness ==
    \E t \in DOMAIN timers :
       /\ timers[t].kind = "bulk"
       /\ timers[t].pc = "done"
       /\ Len(timers[t].ids) = 2
       /\ timers[t].i = 2
       /\ requests[timers[t].ids[1]] = 2
       /\ requests[timers[t].ids[2]] = 1
       /\ ~progressModal

(***************************************************************************)
(* C14.  A failed item does not abort a bulk batch: when the request of    *)
(* an item (or its retry) fails and the item is not the last one, the      *)
(* request of the next item is issued in the same run, unless cancel was   *)
(* signalled.                                                              *)
(***************************************************************************)
C14_FailureDoesNotAbort ==
    [][\A t \in DOMAIN timers :
          (/\ Running(t)
           /\ timers[t].i < Len(timers[t].ids)
           /\ ~bulkDeleteCancelled
           /\ \/ \E o \in {"err", "net", "gone"} : BulkRespond(t, o)
              \/ \E o \in {"err", "net", "gone", "rate"} : BulkRespond2(t, o))
          => LET next == timers[t].ids[timers[t].i + 1]
             IN /\ timers'[t].pc = "fetch"
                /\ timers'[t].i = timers[t].i + 1
                /\ requests' = [requests EXCEPT ![next] = @ + 1]]_vars

\* the first item of a batch failed and the request of the second is in flight
C14_Witness ==
    \E t \in DOMAIN timers :
       /\ timers[t].kind = "bulk"
       /\ timers[t].failed = 1
       /\ timers[t].i = 2
       /\ timers[t].pc = "fetch"
       /\ requests[timers[t].ids[2]] = 1

(***************************************************************************)
(* C15.  Delete requests are serialized: at any moment at most one delete  *)
(* request is in flight, across all pending deletes.                       *)
(***************************************************************************)
C15_OneDeleteInFlight ==
    Cardinality({t \in DOMAIN timers : timers[t].pc \in {"fetch", "fetch2"}}) <= 1

(***************************************************************************)
(* C17.  Pending deletes of different entities are independent: a step     *)
(* that acts on other entities only (a delete, an undo, a timer firing, a  *)
(* request settling, a bulk delete) leaves the timer, the record and the   *)
(* snapshot of a pending delete B unchanged and lists no entity of B       *)
(* again.                                                                  *)
(***************************************************************************)
Ent(items) == {items[k].chat : k \in DOMAIN items}

TimerEnt(t) == {timers[t].ids[k] : k \in DOMAIN timers[t].ids}

Shown(chats, data, id) == FindIn(chats, data, id).found

\* the step changes the pending delete under key kB
Disturbed(kB) ==
    LET B == pendingDeletes[kB]
    IN \/ kB \notin DOMAIN pendingDeletes'
       \/ pendingDeletes'[kB] # B
       \/ timers'[B.timeoutId] # timers[B.timeoutId]
       \/ \E id \in Ent(B.items) :
             /\ ~Shown(currentChats, analysisData, id)
             /\ Shown(currentChats', analysisData', id)

\* the step is an operation on entities that are none of those of kB
ActsOnOthers(kB) ==
    LET B  == pendingDeletes[kB]
        EB == Ent(B.items)
    IN \/ \E id \in Ids \ EB : DeleteClick(id)
       \/ /\ toast # kB
          /\ toast \in DOMAIN pendingDeletes =>
                Ent(pendingDeletes[toast].items) \cap EB = {}
          /\ UndoClick
       \/ /\ {selectedChats[k] : k \in DOMAIN selectedChats} \cap EB = {}
          /\ deleteSelected
       \/ \E t \in DOMAIN timers :
             /\ t # B.timeoutId
             /\ TimerEnt(t) \cap EB = {}
             /\ \/ SingleFire(t)
                \/ SingleStatsDone(t)
                \/ RetryFire(t)
                \/ BulkFire(t)
                \/ BulkRetry(t)
                \/ \E o \in Outcomes :
                      \/ SingleRespond(t, o)
                      \/ BulkRespond(t, o)
                      \/ BulkRespond2(t, o)

C17_PendingDeletesIndependent ==
    [][\A kB \in DOMAIN pendingDeletes :
          ~(Disturbed(kB) /\ ActsOnOthers(kB))]_vars

\* B is pending, armed and hidden after the delete of another entity was undone
C17_Witness ==
    \E kB \in DOMAIN pendingDeletes, t \in DOMAIN timers :
       LET B == pendingDeletes[kB]
       IN /\ timers[B.timeoutId].pc = "armed"
          /\ B.items # <<>>
          /\ t # B.timeoutId
          /\ TimerEnt(t) \cap Ent(B.items) = {}
          /\ timers[t].pc = "cancelled"
          /\ \A id \in Ent(B.items) : ~Shown(currentChats, analysisData, id)

(***************************************************************************)
(* C18.  A delete of an entity that no longer exists at the source counts  *)
(* as success: when the answer to the request of a single delete is a      *)
(* success or reports the dialog as gone, the entity is not re-inserted    *)
(* and no failure is shown.                                                *)
(***************************************************************************)
C18_GoneCountsAsSuccess ==
    [][\A t \in DOMAIN timers : \A o \in {"ok", "gone"} :
          (SingleRespond(t, o) /\ timers[t].key \notin source) =>
             /\ currentChats' = currentChats
             /\ analysisData' = analysisData
             /\ alerts' = alerts]_vars

(***************************************************************************)
(* C16.  Analysis and deletion never overlap on the connection: while an   *)
(* analysis scan is in progress on the server no delete_dialog call is     *)
(* issued, and while a delete request is in progress no message-history    *)
(* probe is issued.                                                        *)
(***************************************************************************)
C16_AnalysisAndDeleteExclusive ==
    [][/\ (scan.pc # "idle" /\ del'.pc = "delete_dialog") =>
             del.pc = "delete_dialog"
       /\ (del.pc # "idle" /\ scan'.pc = "probe") => scan' = scan]_vars

(***************************************************************************)
(* C19.  Fail fast without a session: when no authenticated session is     *)
(* live, a list chats, analyze, delete or export request is answered with  *)
(* the not-connected error and no call to the source is issued.            *)
(***************************************************************************)
C19_FailFastWithoutSession ==
    [][~Usable =>
          /\ GetChats => answer' = Answer("chats", "NOT_CONNECTED", FALSE)
          /\ export_data_endpoint =>
                answer' = Answer("export", "NOT_CONNECTED", FALSE)
          /\ AnalyzeStart =>
                /\ answer' = Answer("analyze", "NOT_CONNECTED", FALSE)
                /\ scan'.pc = "idle"
          /\ \A id \in ServerIds :
                DeleteStart(id) =>
                   /\ answer' = Answer("delete", "NOT_CONNECTED", FALSE)
                   /\ del'.pc = "idle"]_vars

(***************************************************************************)
(* C20.  At most one session is live: after any sequence of connect,       *)
(* verify, logout and reset calls at most one client connection to the     *)
(* source is open.                                                         *)
(***************************************************************************)
C20_AtMostOneOpenClient ==
    Cardinality({i \in DOMAIN conns : conns[i].open}) <= 1

(***************************************************************************)
(* C21.  Session teardown: when a logout or a reset request has been       *)
(* answered, the global client handle is absent and the connected flag is  *)
(* false, so that every later list chats, analyze, delete or export fails  *)
(* as not connected.                                                       *)
(***************************************************************************)
C21_SessionTeardown ==
    [][(logout \/ reset_app) =>
          /\ client' = 0
          /\ is_connected' = FALSE]_vars

(***************************************************************************)
(* C22.  Status of the delete endpoint: 200 exactly when the source        *)
(* deleted the dialog, 429 with a retry_after number of seconds exactly    *)
(* when the source signalled a rate limit, 400 when not connected or when  *)
(* the delete failed otherwise.                                            *)
(***************************************************************************)
C22_DeleteStatus ==
    [][(answer' # answer /\ answer'.op = "delete") =>
          /\ \A id \in ServerIds :
                DeleteStart(id) => (NotConnected /\ Status(answer') = 400)
          /\ \A o \in ServerOutcomes, sec \in WaitSeconds :
                (DeleteEntity(o, sec) \/ DeleteDone(o, sec)) =>
                   /\ Status(answer') = 200 <=>
                         (o = "ok" /\ del.pc = "delete_dialog"
                          /\ del.id \notin source')
                   /\ Status(answer') = 429 <=> o \in {"rate", "flood"}
                   /\ o = "rate" => answer'.retry_after = sec
                   /\ o = "flood" => answer'.retry_after = 30
                   /\ o \in {"err", "gone"} => Status(answer') = 400]_vars

\* a delete was answered 429 with the seconds the source asked for
C22_Witness ==
    /\ answer.op = "delete"
    /\ answer.code = "RATE_LIMITED"
    /\ answer.retry_after = 75
    /\ del.pc = "idle"

(***************************************************************************)
(* Classification and analysis: vocabulary of the claims                   *)
(***************************************************************************)
\* how many times x occurs in the sequence seq
Occurrences(seq, x) == Cardinality({k \in 1..Len(seq) : seq[k] = x})

\* the positions of the entity list holding an entity of one of the kinds
OfKind(kinds) == {i \in 1..Len(input) : input[i].kind \in kinds}

IsFlagged(e) == e.deleted \/ e.bot \/ e.scam \/ e.fake

\* the bucket the first set flag of a flagged person names
FirstFlag(e) ==
    CASE e.deleted -> "deleted"
      [] ~e.deleted /\ e.bot -> "bots"
      [] ~e.deleted /\ ~e.bot /\ e.scam -> "scam"
      [] OTHER -> "fake"

\* how many buckets of the returned analysis hold position i, with repetitions
Placed(i) ==
    Occurrences(out.scanned.users["deleted"], i)
    + Occurrences(out.scanned.users["bots"], i)
    + Occurrences(out.scanned.users["scam"], i)
    + Occurrences(out.scanned.users["fake"], i)
    + Occurrences(out.scanned.users["no_messages"], i)
    + Occurrences(out.scanned.users["only_incoming"], i)
    + Occurrences(out.scanned.users["active"], i)

RECURSIVE SumOver(_, _)
SumOver(f, keys) ==
    IF keys = {} THEN 0
    ELSE LET k == CHOOSE x \in keys : TRUE IN f[k] + SumOver(f, keys \ {k})

\* C23: for every input list, categorize_chats puts each entity in exactly one of
\* users, basic_groups, supergroups, channels, unknown, so the five sizes add up to
\* the size of the input, and groups holds exactly the entities of basic_groups
\* and supergroups, each once.
C23_ClassificationIsPartition ==
    out.op = "categorize" =>
        LET c == out.categorized
        IN /\ Len(c.users) + Len(c.basic_groups) + Len(c.supergroups)
              + Len(c.channels) + Len(c.unknown) = Len(input)
           /\ \A i \in 1..Len(input) :
                 /\ Occurrences(c.users, i) + Occurrences(c.basic_groups, i)
                    + Occurrences(c.supergroups, i) + Occurrences(c.channels, i)
                    + Occurrences(c.unknown, i) = 1
                 /\ Occurrences(c.groups, i)
                       = Occurrences(c.basic_groups, i) + Occurrences(c.supergroups, i)
           /\ Len(c.groups) = Len(c.basic_groups) + Len(c.supergroups)

C23_Witness ==
    /\ out.op = "categorize"
    /\ Len(input) = 2
    /\ input[1].kind = "other"
    /\ input[2].kind = "channel" /\ ~input[2].broadcast
    /\ out.categorized.unknown = <<1>>
    /\ out.categorized.groups = <<2>>

\* C24: the "Total Chats" number print_chat_statistics prints for a categorization
\* equals the number of entities that were categorized, for every input.
C24_TotalIsNumberOfEntities ==
    out.op = "statistics" => out.total = Len(input)

\* C25: an entity that is neither a person, a basic group nor a channel is put in
\* unknown by categorize_chats, and the chat listing of each web backend gives it
\* the type "unknown" and counts it in none of the groups, channels and users
\* statistics.
C25_UnknownEverywhere ==
    /\ out.op = "categorize" =>
          \A i \in OfKind({"other"}) : Occurrences(out.categorized.unknown, i) = 1
    /\ out.op = "list" =>
          /\ \A i \in OfKind({"other"}) : out.listing.types[i] = "unknown"
          /\ out.listing.stats["groups"] + out.listing.stats["channels"]
             + out.listing.stats["users"]
                = Cardinality(OfKind({"user", "chat", "channel"}))

\* C26: when a spam analysis of fastapi_manager, portable_manager or the command
\* line tool returns, every person of the scanned input is in
\* exactly one of the buckets deleted, bots, scam, fake, no_messages,
\* only_incoming, active (and nothing else is in a bucket), and the reported
\* counts are the bucket sizes, so they add up to the number of persons.
C26_AnalysisIsPartition ==
    (out.op = "analyze" /\ out.backend \in {"fastapi", "portable", "cli"}) =>
        /\ \A i \in 1..Len(input) :
              Placed(i) = (IF input[i].kind = "user" THEN 1 ELSE 0)
        /\ \A b \in DOMAIN out.counts : out.counts[b] = Len(out.scanned.users[b])
        /\ SumOver(out.counts, DOMAIN out.counts) = Cardinality(OfKind({"user"}))

C26_Witness ==
    /\ out.op = "analyze"
    /\ out.backend = "fastapi"
    /\ Len(input) = 2
    /\ input[1].kind = "user" /\ ~IsFlagged(input[1]) /\ input[1].probe = "raise"
    /\ input[2].kind = "user" /\ input[2].scam /\ ~input[2].deleted /\ ~input[2].bot
    /\ out.counts["no_messages"] = 1
    /\ out.counts["scam"] = 1

\* C27: in the analyses of fastapi_manager, portable_manager and the command line
\* tool, the bucket of a person with a flag set is the one of its first set flag in
\* the order deleted, bot, scam, fake, for every combination of the four flags,
\* and no message probe is issued for such a person.
C27_FlagPriority ==
    (out.op = "analyze" /\ out.backend \in {"fastapi", "portable", "cli"}) =>
        \A i \in OfKind({"user"}) :
            IsFlagged(input[i]) =>
                /\ Occurrences(out.scanned.users[FirstFlag(input[i])], i) = 1
                /\ Occurrences(out.scanned.probes, i) = 0

C27_Witness ==
    /\ out.op = "analyze"
    /\ out.backend = "cli"
    /\ Len(input) = 1
    /\ input[1].kind = "user" /\ input[1].deleted /\ input[1].bot
    /\ out.scanned.users["deleted"] = <<1>>
    /\ out.scanned.users["bots"] = <<>>
    /\ out.scanned.probes = <<>>

\* C28: in a scan with the budget of 50 probes over persons without a flag, a
\* person after the 50th goes to active and is not probed; and no scan issues
\* more than 50 probes.
C28_ProbeBudgetCutoff ==
    /\ run.probes <= ProbeBudget
    /\ (run.user /\ run.flagged_seen = 0 /\ run.users_checked > ProbeBudget) =>
          (run.bucket = "active" /\ ~run.probed)

C28_Witness ==
    /\ run.user
    /\ run.flagged_seen = 0
    /\ run.users_checked = ProbeBudget + 1
    /\ run.probes = ProbeBudget
    /\ run.bucket = "active"
    /\ ~run.probed

\* C29: a person without a flag is probed whenever fewer than 50 persons have been
\* probed so far in the scan, however many flagged persons came before it.
C29_BudgetCountsProbesOnly ==
    (run.user /\ ~run.flagged /\ ~run.probed) => run.probes >= ProbeBudget

\* C30: when the probe of a person without a flag raises or returns no message,
\* the person is in no_messages, the analysis still returns its buckets, and
\* every later person is classified.
C30_ProbeFailureAbsorbed ==
    (out.op = "analyze" /\ out.backend \in {"fastapi", "portable"}) =>
        \A i \in OfKind({"user"}) :
            (~IsFlagged(input[i]) /\ input[i].probe \in {"raise", "zero"}) =>
                /\ Occurrences(out.scanned.probes, i) = 1
                /\ Occurrences(out.scanned.users["no_messages"], i) = 1
                /\ \A j \in OfKind({"user"}) : j > i => Placed(j) = 1

C30_Witness ==
    /\ out.op = "analyze"
    /\ out.backend = "portable"
    /\ Len(input) = 2
    /\ input[1].kind = "user" /\ ~IsFlagged(input[1]) /\ input[1].probe = "raise"
    /\ input[2].kind = "user" /\ ~IsFlagged(input[2]) /\ input[2].probe = "out"
    /\ out.scanned.users["no_messages"] = <<1>>
    /\ out.scanned.users["active"] = <<2>>

\* C31: after a logout request has been answered, the stored configuration has
\* the API keys it had before and no phone (so a later startup has no phone to
\* auto-connect with).
C31_LogoutForgetsPhone ==
    [][(logout /\ answer'.op = "logout" /\ answer'.code = "OK") =>
          /\ configFile'.present = configFile.present
          /\ configFile'.phone = NoPhone
          /\ config'.phone = NoPhone]_vars

\* C32: in every reachable state of the server, if the connected flag that the
\* health check reports is true, then a client handle exists and that client is
\* authorized.
C32_ConnectedFlagTruthful ==
    is_connected => (client # 0 /\ conns[client].auth)

\* the Undo button of the visible toast undoes the pending delete stored under key
Undoable(key) == toast = key

\* C33: an armed pending delete stays undoable from the page until its own timer
\* fires: when another delete (single or of the selection) is started while its
\* Undo button is shown, or another pending delete is undone, the Undo button
\* still undoes it afterwards.
C33_ArmedStaysUndoable ==
    [][\A t \in DOMAIN timers :
          (/\ timers[t].kind \in {"single", "bulk"}
           /\ timers[t].pc = "armed"
           /\ t \in DOMAIN timers'
           /\ timers'[t].pc = "armed") =>
             /\ (Undoable(timers[t].key)
                   /\ ((\E id \in Ids : DeleteClick(id)) \/ deleteSelected))
                  => toast' = timers[t].key
             /\ UndoClick => toast' = timers[t].key]_vars

\* C34: after any interleaving of single delete, bulk delete, undo, rollback after
\* a failed commit and refresh, no entity id is more than once in the main chat
\* list nor more than once in a category list of the analysis.
C34_NoEntityListedTwice ==
    \A id \in Ids :
       /\ Occurrences(currentChats, id) <= 1
       /\ \A c \in DOMAIN analysisData : Occurrences(analysisData[c], id) <= 1

\* C35: in web_app.py the result of analyze does not depend on what was called
\* before it: an analyze request made after a chat listing filled the cache
\* returns the buckets that an analyze request with an empty cache returns for
\* the same account, so every person of the account is classified.
C35_AnalyzeIgnoresCache ==
    (out.op = "analyze" /\ out.backend = "web_app") =>
        /\ out.scanned = WebAppAnalyze(input, WebAppUsers(input, NoCache), 1,
                                       EmptyScan)
        /\ \A i \in OfKind({"user"}) : Placed(i) = 1

=============================================================================
